---------------------------- MODULE Spec2Model ----------------------------
(***************************************************************************)
(* Tic-tac-toe agents of katoy/study-cursor: the online alpha-beta search  *)
(* (agents/minimax_agent.py), the offline oracle build                     *)
(* (database/generate_all_states.py) and the oracle lookup agent           *)
(* (agents/perfect_agent.py).                                              *)
(*                                                                         *)
(* Cells are indexed 0..8 as in the source.  The build writes boards with  *)
(* "-" for an empty cell, the agents receive boards with "" for an empty   *)
(* cell.  Python's None is the string "None" for a winner and the integer  *)
(* -1 for a move.                                                          *)
(***************************************************************************)
EXTENDS Integers, Sequences, FiniteSets, Bags, TLC

VARIABLES
    board,      \* the live board handed to the agents ("" = empty cell)
    xCtl,       \* who plays X: "human", "minimax", "perfect" or "agent"
    oCtl,       \* who plays O
    store,      \* table board_states as the build's connection sees it
    committed,  \* table board_states as committed to the database file
    processed_states, \* generate_all_states: set of state ids inserted
    count,      \* generate_all_states: number of rows inserted
    pos,        \* generate_all_states: boards of the enumeration consumed
    phase,      \* generate_all_states: "idle", "running", "done", "error"
    evaluated,  \* bag of the (board, next_player) calls of evaluate_state
    runs,       \* number of builds started
    prevRows,   \* rows committed by the previous complete build
    prevCount,  \* count reported by the previous complete build
    human_is_first, \* TicTacToe.human_is_first
    moves_history,  \* TicTacToe.moves_history: the (index, mark) of each move
    pending,    \* the computer_move callbacks scheduled by window.after, oldest
                \* first, each with the number of the game that scheduled it
    game,       \* number of the game on the live board: reset_game calls so far
    stack,      \* the frames of the call in progress, the outermost first
    returned    \* <<>>, or the one record of what the outermost call returned

vars == <<board, xCtl, oCtl, store, committed, processed_states, count, pos,
          phase, evaluated, runs, prevRows, prevCount,
          human_is_first, moves_history, pending, game, stack, returned>>

playVars == <<board, xCtl, oCtl>>
buildVars == <<store, committed, processed_states, count, pos, phase,
               evaluated, runs, prevRows, prevCount>>
liveVars == <<human_is_first, moves_history, pending, game>>
searchVars == <<stack, returned>>

-----------------------------------------------------------------------------
(* Bounds of the model *)

\* the build enumerates the boards with at most this many empty cells
MaxEmptyBuild == 1
\* the per-board agent checks cover the boards with at most this many empty cells
MaxEmptyPlay == 5
\* number of consecutive builds
MaxRuns == 2
\* a build that meets a storage failure enumerates the boards with at most
\* this many empty cells: enough for a commit of CommitEvery rows to happen
MaxEmptyFail == 3
\* the single calls of get_move cover all boards, reachable by play or not,
\* with at most this many empty cells
MaxEmptyCall == 4
\* marks placed in one game of the live window
MaxLiveMarks == 3
\* games of the live window: calls of reset_game
MaxGames == 2
\* empty cells of the boards a search is followed on frame by frame
MaxEmptySearch == 4

-----------------------------------------------------------------------------
(* Values *)

None == -1
NoWinner == "None"
Cells == 0..8
PosInf == 1000
NegInf == -1000

Max(a, b) == IF a >= b THEN a ELSE b
Min(a, b) == IF a <= b THEN a ELSE b

\* "O" if player_mark == "X" else "X"
opponent(player_mark) == IF player_mark = "X" THEN "O" ELSE "X"

-----------------------------------------------------------------------------
(* database/generate_all_states.py: win detection and evaluation *)

get_win_patterns ==
    LET size == 3
        rows == [i \in 1..size |-> [j \in 1..size |-> (i - 1) * size + (j - 1)]]
        cols == [i \in 1..size |-> [j \in 1..size |-> (i - 1) + (j - 1) * size]]
        diag1 == << [i \in 1..size |-> (i - 1) * (size + 1)] >>
        diag2 == << [i \in 1..size |-> i * (size - 1)] >>
    IN  rows \o cols \o diag1 \o diag2

\* variant of the test that takes three empty cells for a line
pattern_wins_any(b, pattern) ==
    /\ b[pattern[1]] = b[pattern[2]]
    /\ b[pattern[1]] = b[pattern[3]]

\* the test of one pattern in check_winner
pattern_wins(b, pattern) ==
    /\ b[pattern[1]] # "-"
    /\ b[pattern[1]] = b[pattern[2]]
    /\ b[pattern[1]] = b[pattern[3]]

\* the mark of pattern k if it wins, else the rest of the scan
first_win(b, k, rest) ==
    IF pattern_wins(b, get_win_patterns[k]) THEN b[get_win_patterns[k][1]] ELSE rest

check_winner(b) ==
    first_win(b, 1, first_win(b, 2, first_win(b, 3, first_win(b, 4,
    first_win(b, 5, first_win(b, 6, first_win(b, 7, first_win(b, 8, NoWinner))))))))

\* variant of max_by_eval that takes the last pair of the scan among the greatest
max_by_eval_last(moves) ==
    CHOOSE m \in moves : \A n \in moves : n[1] < m[1] \/ (n[1] = m[1] /\ n[2] <= m[2])

\* variant of max_by_eval that takes the least evaluation: X choosing against itself
max_by_eval_least(moves) ==
    CHOOSE m \in moves : \A n \in moves : n[1] > m[1] \/ (n[1] = m[1] /\ n[2] >= m[2])

\* max(moves, key=lambda x: x[0]): the first pair of the scan that has the
\* greatest evaluation; moves is a set of <<eval_val, i>>, scanned by ascending i
max_by_eval(moves) ==
    CHOOSE m \in moves : \A n \in moves : n[1] < m[1] \/ (n[1] = m[1] /\ n[2] >= m[2])

\* variant of min_by_eval that takes the greatest evaluation: O choosing against itself
min_by_eval_greatest(moves) ==
    CHOOSE m \in moves : \A n \in moves : n[1] < m[1] \/ (n[1] = m[1] /\ n[2] >= m[2])

\* min(moves, key=lambda x: x[0])
min_by_eval(moves) ==
    CHOOSE m \in moves : \A n \in moves : n[1] > m[1] \/ (n[1] = m[1] /\ n[2] >= m[2])

\* the boards evaluate_state recurses into: <<i, board with board[i] = next_player, next_mark>>
eval_children(b, next_player) ==
    {<<i, [b EXCEPT ![i] = next_player], opponent(next_player)>> :
        i \in {j \in Cells : b[j] = "-"}}

RECURSIVE evaluate_state(_, _)
\* returns <<evaluation, best move>>
evaluate_state(b, next_player) ==
    LET winner == check_winner(b)
    IN  IF winner = "X" THEN <<1, None>>
        ELSE IF winner = "O" THEN <<-1, None>>
        ELSE IF \A i \in Cells : b[i] # "-" THEN <<0, None>>
        ELSE LET moves == {<<evaluate_state(c[2], c[3])[1], c[1]>> :
                              c \in eval_children(b, next_player)}
             IN  IF next_player = "X" THEN max_by_eval(moves) ELSE min_by_eval(moves)


\* f"{''.join(board)}_{next_player}": the characters of the id, one per element
join(cells) ==
    LET chars(c) == IF c = "" THEN <<>> ELSE <<c>>
    IN  chars(cells[0]) \o chars(cells[1]) \o chars(cells[2]) \o chars(cells[3])
        \o chars(cells[4]) \o chars(cells[5]) \o chars(cells[6]) \o chars(cells[7])
        \o chars(cells[8])

generate_state_id(b, next_player) == join(b) \o <<"_", next_player>>

is_valid_board(b) ==
    LET x_count == Cardinality({i \in Cells : b[i] = "X"})
        o_count == Cardinality({i \in Cells : b[i] = "O"})
    IN  x_count - o_count \in {0, 1}

\* variant of the choice of next_player that lets O move first
next_player_of_o_first(b) ==
    LET x_count == Cardinality({i \in Cells : b[i] = "X"})
        o_count == Cardinality({i \in Cells : b[i] = "O"})
    IN  IF x_count > o_count THEN "X" ELSE "O"

\* next_player = "O" if x_count > o_count else "X"
next_player_of(b) ==
    LET x_count == Cardinality({i \in Cells : b[i] = "X"})
        o_count == Cardinality({i \in Cells : b[i] = "O"})
    IN  IF x_count > o_count THEN "O" ELSE "X"

-----------------------------------------------------------------------------
(* agents/minimax_agent.py *)

_is_moves_left(b) == \E i \in Cells : b[i] = ""

\* one test of _evaluate_board: board[a1] == board[a2] == board[a3] != ""
line_of(b, a1, a2, a3) == b[a1] = b[a2] /\ b[a2] = b[a3] /\ b[a3] # ""

\* variant of the lines without the top row
evaluate_lines_without_top_row ==
    [k \in 1..2 |-> <<3 * k, 3 * k + 1, 3 * k + 2>>]
    \o [k \in 1..3 |-> <<k - 1, k - 1 + 3, k - 1 + 6>>]
    \o << <<0, 4, 8>>, <<2, 4, 6>> >>

\* the lines in the order _evaluate_board scans them
evaluate_lines ==
    [k \in 1..3 |-> <<3 * (k - 1), 3 * (k - 1) + 1, 3 * (k - 1) + 2>>]
    \o [k \in 1..3 |-> <<k - 1, k - 1 + 3, k - 1 + 6>>]
    \o << <<0, 4, 8>>, <<2, 4, 6>> >>

\* variant of _evaluate_board that sees the lines of player_mark only
_evaluate_board_own_lines(b, player_mark, opponent_mark) ==
    IF \E k \in 1..Len(evaluate_lines) :
           /\ line_of(b, evaluate_lines[k][1], evaluate_lines[k][2], evaluate_lines[k][3])
           /\ b[evaluate_lines[k][1]] = player_mark
    THEN 10 ELSE 0

_evaluate_board(b, player_mark, opponent_mark) ==
    LET decided == {k \in 1..Len(evaluate_lines) :
                      /\ line_of(b, evaluate_lines[k][1], evaluate_lines[k][2],
                                 evaluate_lines[k][3])
                      /\ b[evaluate_lines[k][1]] \in {player_mark, opponent_mark}}
    IN  IF decided = {} THEN 0
        ELSE LET k == CHOOSE k \in decided : \A j \in decided : k <= j
             IN  IF b[evaluate_lines[k][1]] = player_mark THEN 10 ELSE -10

RECURSIVE _minimax(_, _, _, _, _, _, _)
RECURSIVE _maximize_from(_, _, _, _, _, _, _, _)
RECURSIVE _minimize_from(_, _, _, _, _, _, _, _)

\* variant of the loop of _maximize with the test of the break inverted
_maximize_from_inverted(b, i, best, depth, alpha, beta, player_mark, opponent_mark) ==
    IF i > 8 THEN best
    ELSE IF b[i] # "" THEN
        _maximize_from(b, i + 1, best, depth, alpha, beta, player_mark, opponent_mark)
    ELSE LET v == _minimax([b EXCEPT ![i] = player_mark], depth + 1, FALSE,
                           alpha, beta, player_mark, opponent_mark)
             nbest == Max(best, v)
             nalpha == Max(alpha, nbest)
         IN  IF nalpha <= beta THEN nbest
             ELSE _maximize_from(b, i + 1, nbest, depth, nalpha, beta,
                                 player_mark, opponent_mark)

\* the loop of _maximize from cell i on, with the running best and alpha
_maximize_from(b, i, best, depth, alpha, beta, player_mark, opponent_mark) ==
    IF i > 8 THEN best
    ELSE IF b[i] # "" THEN
        _maximize_from(b, i + 1, best, depth, alpha, beta, player_mark, opponent_mark)
    ELSE LET v == _minimax([b EXCEPT ![i] = player_mark], depth + 1, FALSE,
                           alpha, beta, player_mark, opponent_mark)
             nbest == Max(best, v)
             nalpha == Max(alpha, nbest)
         IN  IF beta <= nalpha THEN nbest
             ELSE _maximize_from(b, i + 1, nbest, depth, nalpha, beta,
                                 player_mark, opponent_mark)

_maximize(b, depth, alpha, beta, player_mark, opponent_mark) ==
    _maximize_from(b, 0, NegInf, depth, alpha, beta, player_mark, opponent_mark)

\* the loop of _minimize from cell i on, with the running best and beta
_minimize_from(b, i, best, depth, alpha, beta, player_mark, opponent_mark) ==
    IF i > 8 THEN best
    ELSE IF b[i] # "" THEN
        _minimize_from(b, i + 1, best, depth, alpha, beta, player_mark, opponent_mark)
    ELSE LET v == _minimax([b EXCEPT ![i] = opponent_mark], depth + 1, TRUE,
                           alpha, beta, player_mark, opponent_mark)
             nbest == Min(best, v)
             nbeta == Min(beta, nbest)
         IN  IF nbeta <= alpha THEN nbest
             ELSE _minimize_from(b, i + 1, nbest, depth, alpha, nbeta,
                                 player_mark, opponent_mark)

\* variant of _minimize in which the opponent's reply is the first empty cell
\* it finds, whatever its value
_minimize_first_reply(b, depth, alpha, beta, player_mark, opponent_mark) ==
    LET i == CHOOSE i \in Cells : b[i] = "" /\ \A j \in Cells : b[j] = "" => i <= j
    IN  _minimax([b EXCEPT ![i] = opponent_mark], depth + 1, TRUE, alpha, beta,
                 player_mark, opponent_mark)

_minimize(b, depth, alpha, beta, player_mark, opponent_mark) ==
    _minimize_from(b, 0, PosInf, depth, alpha, beta, player_mark, opponent_mark)

\* variant of _minimax in which a lost leaf is worth less the deeper it is
_minimax_hasty_loss(b, depth, is_max, alpha, beta, player_mark, opponent_mark) ==
    LET score == _evaluate_board(b, player_mark, opponent_mark)
    IN  IF score = 10 THEN score - depth
        ELSE IF score = -10 THEN score - depth
        ELSE IF ~_is_moves_left(b) THEN 0
        ELSE IF is_max THEN _maximize(b, depth, alpha, beta, player_mark, opponent_mark)
        ELSE _minimize(b, depth, alpha, beta, player_mark, opponent_mark)

\* variant of _minimax in which a leaf is worth its score at any depth
_minimax_flat(b, depth, is_max, alpha, beta, player_mark, opponent_mark) ==
    LET score == _evaluate_board(b, player_mark, opponent_mark)
    IN  IF score = 10 THEN score
        ELSE IF score = -10 THEN score
        ELSE IF ~_is_moves_left(b) THEN 0
        ELSE IF is_max THEN _maximize(b, depth, alpha, beta, player_mark, opponent_mark)
        ELSE _minimize(b, depth, alpha, beta, player_mark, opponent_mark)

_minimax(b, depth, is_max, alpha, beta, player_mark, opponent_mark) ==
    LET score == _evaluate_board(b, player_mark, opponent_mark)
    IN  IF score = 10 THEN score - depth
        ELSE IF score = -10 THEN score + depth
        ELSE IF ~_is_moves_left(b) THEN 0
        ELSE IF is_max THEN _maximize(b, depth, alpha, beta, player_mark, opponent_mark)
        ELSE _minimize(b, depth, alpha, beta, player_mark, opponent_mark)

RECURSIVE get_move_last_best(_, _, _, _, _)
\* variant of get_move_from with move_val >= best_val: the last best move wins
get_move_last_best(b, i, best_val, best_move, player_mark) ==
    IF i > 8 THEN <<best_val, best_move>>
    ELSE IF b[i] # "" THEN get_move_last_best(b, i + 1, best_val, best_move, player_mark)
    ELSE LET move_val == _minimax([b EXCEPT ![i] = player_mark], 0, FALSE, NegInf, PosInf,
                                  player_mark, opponent(player_mark))
         IN  IF move_val >= best_val
             THEN get_move_last_best(b, i + 1, move_val, i, player_mark)
             ELSE get_move_last_best(b, i + 1, best_val, best_move, player_mark)

RECURSIVE get_move_from(_, _, _, _, _)
\* the loop of MinimaxAgent.get_move from cell i on: <<best_val, best_move>>
get_move_from(b, i, best_val, best_move, player_mark) ==
    IF i > 8 THEN <<best_val, best_move>>
    ELSE IF b[i] # "" THEN get_move_from(b, i + 1, best_val, best_move, player_mark)
    ELSE LET move_val == _minimax([b EXCEPT ![i] = player_mark], 0, FALSE, NegInf, PosInf,
                                  player_mark, opponent(player_mark))
         IN  IF move_val > best_val
             THEN get_move_from(b, i + 1, move_val, i, player_mark)
             ELSE get_move_from(b, i + 1, best_val, best_move, player_mark)

MinimaxAgent_get_move(b, player_mark) == get_move_from(b, 0, NegInf, None, player_mark)[2]

-----------------------------------------------------------------------------
(* The same searches on the one list the frames share: each call returns its
   value, the list as it leaves it, and frames: every frame below it, and the
   call itself, returned the list it received *)

\* variant of the restoring assignment that leaves the mark on the cell
restore_cell_skipped(b, i, blank) == b

\* board[i] = "" after the recursive call (board[i] = "-" in evaluate_state)
restore_cell(b, i, blank) == [b EXCEPT ![i] = blank]

RECURSIVE _minimax_in_place(_, _, _, _, _, _, _)
RECURSIVE _maximize_in_place_from(_, _, _, _, _, _, _, _, _)
RECURSIVE _minimize_in_place_from(_, _, _, _, _, _, _, _, _)

\* the loop of _maximize from cell i on
_maximize_in_place_from(b, i, best, depth, alpha, beta, player_mark, opponent_mark, frames) ==
    IF i > 8 THEN [value |-> best, board |-> b, frames |-> frames]
    ELSE IF b[i] # "" THEN
        _maximize_in_place_from(b, i + 1, best, depth, alpha, beta,
                                player_mark, opponent_mark, frames)
    ELSE LET marked == [b EXCEPT ![i] = player_mark]
             r == _minimax_in_place(marked, depth + 1, FALSE, alpha, beta,
                                    player_mark, opponent_mark)
             restored == restore_cell(r.board, i, "")
             nbest == Max(best, r.value)
             nalpha == Max(alpha, nbest)
             nframes == frames /\ r.frames /\ r.board = marked
         IN  IF beta <= nalpha
             THEN [value |-> nbest, board |-> restored, frames |-> nframes]
             ELSE _maximize_in_place_from(restored, i + 1, nbest, depth, nalpha, beta,
                                          player_mark, opponent_mark, nframes)

_maximize_in_place(b, depth, alpha, beta, player_mark, opponent_mark) ==
    LET r == _maximize_in_place_from(b, 0, NegInf, depth, alpha, beta,
                                     player_mark, opponent_mark, TRUE)
    IN  [r EXCEPT !.frames = r.frames /\ r.board = b]

\* the loop of _minimize from cell i on
_minimize_in_place_from(b, i, best, depth, alpha, beta, player_mark, opponent_mark, frames) ==
    IF i > 8 THEN [value |-> best, board |-> b, frames |-> frames]
    ELSE IF b[i] # "" THEN
        _minimize_in_place_from(b, i + 1, best, depth, alpha, beta,
                                player_mark, opponent_mark, frames)
    ELSE LET marked == [b EXCEPT ![i] = opponent_mark]
             r == _minimax_in_place(marked, depth + 1, TRUE, alpha, beta,
                                    player_mark, opponent_mark)
             restored == restore_cell(r.board, i, "")
             nbest == Min(best, r.value)
             nbeta == Min(beta, nbest)
             nframes == frames /\ r.frames /\ r.board = marked
         IN  IF nbeta <= alpha
             THEN [value |-> nbest, board |-> restored, frames |-> nframes]
             ELSE _minimize_in_place_from(restored, i + 1, nbest, depth, alpha, nbeta,
                                          player_mark, opponent_mark, nframes)

_minimize_in_place(b, depth, alpha, beta, player_mark, opponent_mark) ==
    LET r == _minimize_in_place_from(b, 0, PosInf, depth, alpha, beta,
                                     player_mark, opponent_mark, TRUE)
    IN  [r EXCEPT !.frames = r.frames /\ r.board = b]

_minimax_in_place(b, depth, is_max, alpha, beta, player_mark, opponent_mark) ==
    LET score == _evaluate_board(b, player_mark, opponent_mark)
    IN  IF score = 10 THEN [value |-> score - depth, board |-> b, frames |-> TRUE]
        ELSE IF score = -10 THEN [value |-> score + depth, board |-> b, frames |-> TRUE]
        ELSE IF ~_is_moves_left(b) THEN [value |-> 0, board |-> b, frames |-> TRUE]
        ELSE IF is_max
        THEN _maximize_in_place(b, depth, alpha, beta, player_mark, opponent_mark)
        ELSE _minimize_in_place(b, depth, alpha, beta, player_mark, opponent_mark)

RECURSIVE get_move_in_place_from(_, _, _, _, _, _)
\* the loop of MinimaxAgent.get_move from cell i on; value is the best_move
get_move_in_place_from(b, i, best_val, best_move, player_mark, frames) ==
    IF i > 8 THEN [value |-> best_move, board |-> b, frames |-> frames]
    ELSE IF b[i] # "" THEN
        get_move_in_place_from(b, i + 1, best_val, best_move, player_mark, frames)
    ELSE LET marked == [b EXCEPT ![i] = player_mark]
             r == _minimax_in_place(marked, 0, FALSE, NegInf, PosInf,
                                    player_mark, opponent(player_mark))
             restored == restore_cell(r.board, i, "")
             nframes == frames /\ r.frames /\ r.board = marked
         IN  IF r.value > best_val
             THEN get_move_in_place_from(restored, i + 1, r.value, i, player_mark, nframes)
             ELSE get_move_in_place_from(restored, i + 1, best_val, best_move,
                                         player_mark, nframes)

get_move_in_place(b, player_mark) ==
    get_move_in_place_from(b, 0, NegInf, None, player_mark, TRUE)

RECURSIVE evaluate_state_in_place(_, _)
RECURSIVE evaluate_state_in_place_from(_, _, _, _, _)

\* the loop of evaluate_state from cell i on; value is the list moves, as a set
evaluate_state_in_place_from(b, i, moves, next_player, frames) ==
    IF i > 8 THEN [value |-> moves, board |-> b, frames |-> frames]
    ELSE IF b[i] # "-" THEN
        evaluate_state_in_place_from(b, i + 1, moves, next_player, frames)
    ELSE LET marked == [b EXCEPT ![i] = next_player]
             r == evaluate_state_in_place(marked, opponent(next_player))
             restored == restore_cell(r.board, i, "-")
         IN  evaluate_state_in_place_from(restored, i + 1,
                 moves \cup {<<r.value[1], i>>}, next_player,
                 frames /\ r.frames /\ r.board = marked)

\* value is <<evaluation, best move>>
evaluate_state_in_place(b, next_player) ==
    LET winner == check_winner(b)
    IN  IF winner = "X" THEN [value |-> <<1, None>>, board |-> b, frames |-> TRUE]
        ELSE IF winner = "O" THEN [value |-> <<-1, None>>, board |-> b, frames |-> TRUE]
        ELSE IF \A i \in Cells : b[i] # "-"
        THEN [value |-> <<0, None>>, board |-> b, frames |-> TRUE]
        ELSE LET r == evaluate_state_in_place_from(b, 0, {}, next_player, TRUE)
             IN  [value |-> IF next_player = "X" THEN max_by_eval(r.value)
                            ELSE min_by_eval(r.value),
                  board |-> r.board,
                  frames |-> r.frames /\ r.board = b]

-----------------------------------------------------------------------------
(* database/generate_all_states.py: the rows of table board_states *)

\* a table without rows
EmptyTable == <<>>

\* product(marks, repeat=9) yields 3^9 boards
ProductSize == 19683

marks == <<"-", "X", "O">>

\* the n-th board (from 0) that product(marks, repeat=9) yields: cell 0 varies slowest
board_at(n) ==
    [i \in Cells |->
        marks[1 + (CASE i = 0 -> n \div 6561
                     [] i = 1 -> (n \div 2187) % 3
                     [] i = 2 -> (n \div 729) % 3
                     [] i = 3 -> (n \div 243) % 3
                     [] i = 4 -> (n \div 81) % 3
                     [] i = 5 -> (n \div 27) % 3
                     [] i = 6 -> (n \div 9) % 3
                     [] i = 7 -> (n \div 3) % 3
                     [] OTHER -> n % 3)]]

empty_count(b) == Cardinality({i \in Cells : b[i] = "-"})

\* str(board), the text stored in column board_state: the cells in order
board_text(b) == [k \in 1..9 |-> b[k - 1]]

\* the values of the INSERT for a board that has no winner and an empty cell
inserted_row(b) ==
    LET next_player == next_player_of(b)
        result == evaluate_state(b, next_player)
    IN  [board_state |-> board_text(b),
         next_player |-> next_player,
         best_move |-> result[2],
         evaluation |-> result[1],
         is_terminal |-> FALSE]

\* the board a state id was generated from
board_of_id(state_id) == [i \in Cells |-> state_id[i + 1]]

\* the characters a state id is made of
IdChars == {"-", "X", "O", "_"}

\* the state ids generate_all_states inserts a row for, among those of the
\* boards with at most max_empty empty cells
inserted_ids(max_empty) ==
    {state_id \in [1..11 -> IdChars] :
        LET b == board_of_id(state_id)
        IN  /\ \A i \in Cells : b[i] \in {"-", "X", "O"}
            /\ empty_count(b) <= max_empty
            /\ is_valid_board(b)
            /\ check_winner(b) = NoWinner
            /\ \E i \in Cells : b[i] = "-"
            /\ state_id = generate_state_id(b, next_player_of(b))}

\* table board_states after a complete build over the boards with at most
\* max_empty empty cells
built_table(max_empty) ==
    [state_id \in inserted_ids(max_empty) |-> inserted_row(board_of_id(state_id))]

-----------------------------------------------------------------------------
(* agents/perfect_agent.py *)

\* variant of _generate_state_id without the conversion of "" to "-"
_generate_state_id_raw(b, player) == join(b) \o <<"_", player>>

_generate_state_id(b, player) ==
    join([i \in Cells |-> IF b[i] # "" THEN b[i] ELSE "-"]) \o <<"_", player>>

\* variant of _get_random_move that does not look at the cells' contents
_get_random_move_any(b) == Cells

\* the values _get_random_move may return
_get_random_move(b) ==
    LET empty_cells == {i \in Cells : b[i] = ""}
    IN  IF empty_cells # {} THEN empty_cells ELSE {None}

\* variant of PerfectAgent.get_move that trusts the stored best_move
PerfectAgent_get_move_unchecked(st, db_error, b, player) ==
    LET state_id == _generate_state_id(b, player)
        found == state_id \in DOMAIN st
        move == st[state_id].best_move
    IN  IF db_error THEN [moves |-> _get_random_move(b), diag |-> "db_error"]
        ELSE IF found /\ move # None
        THEN [moves |-> {move}, diag |-> "none"]
        ELSE [moves |-> _get_random_move(b), diag |-> "not_found"]

\* PerfectAgent.get_move on table st; db_error: sqlite3 raises an Error.
\* moves: the values the call may return; diag: the message it prints
PerfectAgent_get_move(st, db_error, b, player) ==
    LET state_id == _generate_state_id(b, player)
        found == state_id \in DOMAIN st
        move == st[state_id].best_move
    IN  IF db_error THEN [moves |-> _get_random_move(b), diag |-> "db_error"]
        ELSE IF found /\ move # None
        THEN IF 0 <= move /\ move < 9 /\ b[move] = ""
             THEN [moves |-> {move}, diag |-> "none"]
             ELSE [moves |-> _get_random_move(b), diag |-> "invalid_move"]
        ELSE [moves |-> _get_random_move(b), diag |-> "not_found"]

-----------------------------------------------------------------------------
(* agents/random_agent.py *)

\* the values RandomAgent.get_move may return
RandomAgent_get_move(b, player_mark) ==
    LET empty_cells == {i \in Cells : b[i] = ""}
    IN  IF empty_cells # {} THEN empty_cells ELSE {None}

-----------------------------------------------------------------------------
(* The game: legal alternating play from the empty board, X first *)

EmptyBoard == [i \in Cells |-> ""]

empty_cells(b) == {i \in Cells : b[i] = ""}

mark_count(b, m) == Cardinality({i \in Cells : b[i] = m})

\* the mark whose turn it is
to_move(b) == IF mark_count(b, "X") = mark_count(b, "O") THEN "X" ELSE "O"

\* the three-cell lines of the board
Lines ==
    {{3 * r, 3 * r + 1, 3 * r + 2} : r \in 0..2}
    \cup {{c, c + 3, c + 6} : c \in 0..2}
    \cup {{0, 4, 8}, {2, 4, 6}}

HasLine(b, m) == \E l \in Lines : \A i \in l : b[i] = m

GameOver(b) == HasLine(b, "X") \/ HasLine(b, "O") \/ empty_cells(b) = {}

place(b, i, m) == [b EXCEPT ![i] = m]

\* the board as generate_all_states holds it, "-" for an empty cell; @@ makes
\* the list one of explicit cells, which the assignments to a cell go to
dashed(b) == [i \in Cells |-> IF b[i] = "" THEN "-" ELSE b[i]] @@ <<>>

\* who plays the mark whose turn it is
controller == IF to_move(board) = "X" THEN xCtl ELSE oCtl

\* a person (or any opponent) plays some empty cell
HumanMove(i) ==
    /\ ~GameOver(board)
    /\ controller \in {"human", "any"}
    /\ board[i] = ""
    /\ board' = place(board, i, to_move(board))
    /\ UNCHANGED <<xCtl, oCtl>>
    /\ UNCHANGED buildVars
    /\ UNCHANGED searchVars
    /\ UNCHANGED liveVars

\* computer_move with the minimax agent
MinimaxMove ==
    /\ ~GameOver(board)
    /\ \/ controller \in {"minimax", "agent"}
       \/ controller = "any" /\ Cardinality(empty_cells(board)) <= MaxEmptyPlay
    /\ LET move == MinimaxAgent_get_move(board, to_move(board))
       IN  /\ move # None
           /\ board' = place(board, move, to_move(board))
    /\ UNCHANGED <<xCtl, oCtl>>
    /\ UNCHANGED buildVars
    /\ UNCHANGED searchVars
    /\ UNCHANGED liveVars

\* computer_move with the perfect agent, on the table of a complete build
PerfectMove ==
    /\ ~GameOver(board)
    /\ \/ controller \in {"perfect", "agent"}
       \/ controller = "any" /\ Cardinality(empty_cells(board)) <= MaxEmptyPlay
    /\ \E move \in PerfectAgent_get_move(built_table(9), FALSE, board, to_move(board)).moves :
           /\ move # None
           /\ board' = place(board, move, to_move(board))
    /\ UNCHANGED <<xCtl, oCtl>>
    /\ UNCHANGED buildVars
    /\ UNCHANGED searchVars
    /\ UNCHANGED liveVars

\* the window as constructed, nothing clicked
LiveIdle ==
    /\ human_is_first = TRUE
    /\ moves_history = <<>>
    /\ pending = <<>>
    /\ game = 0

\* no call of a search is in progress
SearchIdle ==
    /\ stack = <<>>
    /\ returned = <<>>

BuildIdle ==
    /\ store = EmptyTable
    /\ committed = EmptyTable
    /\ processed_states = {}
    /\ count = 0
    /\ pos = 0
    /\ phase = "idle"
    /\ evaluated = EmptyBag
    /\ runs = 0
    /\ prevRows = EmptyTable
    /\ prevCount = 0

\* every board of legal play; the agents answer on the boards within MaxEmptyPlay
InitPlay ==
    /\ board = EmptyBoard
    /\ xCtl = "any"
    /\ oCtl = "any"
    /\ BuildIdle
    /\ LiveIdle
    /\ SearchIdle

\* whole games: an agent on one side against any opponent, or agents on both sides
InitGame ==
    /\ board = EmptyBoard
    /\ \E sides \in {<<"perfect", "human">>, <<"human", "perfect">>,
                     <<"agent", "agent">>} :
           /\ xCtl = sides[1]
           /\ oCtl = sides[2]
    /\ BuildIdle
    /\ LiveIdle
    /\ SearchIdle

NextPlay ==
    \/ \E i \in Cells : HumanMove(i)
    \/ MinimaxMove
    \/ PerfectMove

SpecPlay == InitPlay /\ [][NextPlay]_vars

SpecGame == InitGame /\ [][NextPlay]_vars

-----------------------------------------------------------------------------
(* One call of an agent's get_move on any board a caller may pass, followed
   by the placement computer_move makes of the move returned *)

\* the values a row's best_move may hold
StoredMoves == {None, -2, 9} \cup Cells

\* a table whose only row is under the key of (b, player), with best_move m
row_with(b, player, m) ==
    _generate_state_id(b, player) :>
        [board_state |-> join([i \in Cells |-> IF b[i] # "" THEN b[i] ELSE "-"]),
         next_player |-> player, best_move |-> m, evaluation |-> 0]

\* the tables the perfect agent is called on: no row under the key, or any row
StoresFor(b, player) ==
    {EmptyTable} \cup {row_with(b, player, m) : m \in StoredMoves}

\* all boards over the three cell values with at most MaxEmptyCall empty cells
AnyBoards ==
    {b \in [Cells -> {"", "X", "O"}] : Cardinality(empty_cells(b)) <= MaxEmptyCall}

MinimaxCall(player) ==
    /\ LET move == MinimaxAgent_get_move(board, player)
       IN  /\ move # None
           /\ board' = place(board, move, player)
    /\ UNCHANGED <<xCtl, oCtl>>
    /\ UNCHANGED buildVars
    /\ UNCHANGED searchVars
    /\ UNCHANGED liveVars

PerfectCall(player) ==
    /\ \E db_error \in BOOLEAN, st \in StoresFor(board, player) :
           \E move \in PerfectAgent_get_move(st, db_error, board, player).moves :
               /\ move # None
               /\ board' = place(board, move, player)
    /\ UNCHANGED <<xCtl, oCtl>>
    /\ UNCHANGED buildVars
    /\ UNCHANGED searchVars
    /\ UNCHANGED liveVars

RandomCall(player) ==
    /\ \E move \in RandomAgent_get_move(board, player) :
           /\ move # None
           /\ board' = place(board, move, player)
    /\ UNCHANGED <<xCtl, oCtl>>
    /\ UNCHANGED buildVars
    /\ UNCHANGED searchVars
    /\ UNCHANGED liveVars

InitCall ==
    /\ board \in AnyBoards
    /\ xCtl = "caller"
    /\ oCtl = "caller"
    /\ BuildIdle
    /\ LiveIdle
    /\ SearchIdle

NextCall ==
    \E player \in {"X", "O"} :
        \/ MinimaxCall(player)
        \/ PerfectCall(player)
        \/ RandomCall(player)

SpecCall == InitCall /\ [][NextCall]_vars

-----------------------------------------------------------------------------
(* tictactoe_tk.py: the window, with the random agent selected.  A handler
   runs to its end before the next event is taken; the events are the clicks
   on the cells, on reset and on the two menus, and the computer_move
   callbacks that window.after has scheduled, in the order of scheduling *)

_get_player_mark(is_human, is_first) ==
    IF is_human THEN (IF is_first THEN "X" ELSE "O")
    ELSE (IF is_first THEN "O" ELSE "X")

\* the fields of the window the handlers write
window == [board |-> board, moves_history |-> moves_history, game |-> game]

_make_move(w, index, mark) ==
    [w EXCEPT !.board = place(@, index, mark),
              !.moves_history = Append(@, <<index, mark>>)]

RECURSIVE reset_game(_, _)
RECURSIVE computer_move(_, _)

\* the windows _check_game_end may leave: after a win or a full board the
\* message box, save_game and reset_game
_check_game_end(w, is_first) ==
    IF GameOver(w.board) THEN reset_game(w, is_first) ELSE {w}

\* the windows computer_move may leave
computer_move(w, is_first) ==
    UNION {IF move # None
           THEN _check_game_end(_make_move(w, move, _get_player_mark(FALSE, is_first)),
                                is_first)
           ELSE {w} :
           move \in RandomAgent_get_move(w.board, _get_player_mark(FALSE, is_first))}

\* the windows reset_game may leave
reset_game(w, is_first) ==
    LET cleared == [board |-> EmptyBoard, moves_history |-> <<>>, game |-> w.game + 1]
    IN  IF ~is_first THEN computer_move(cleared, is_first) ELSE {cleared}

\* the handler leaves the window as w
leaves(w) ==
    /\ w.game <= MaxGames
    /\ board' = w.board
    /\ moves_history' = w.moves_history
    /\ game' = w.game

\* a click on the cell index
button_click(index) ==
    /\ board[index] = ""
    /\ Len(moves_history) < MaxLiveMarks
    /\ LET moved == _make_move(window, index, _get_player_mark(TRUE, human_is_first))
       IN  /\ \E w \in _check_game_end(moved, human_is_first) : leaves(w)
           /\ pending' = (IF GameOver(moved.board) THEN pending
                          ELSE Append(pending, game))
    /\ UNCHANGED human_is_first
    /\ UNCHANGED <<xCtl, oCtl>>
    /\ UNCHANGED buildVars
    /\ UNCHANGED searchVars

\* the oldest scheduled computer_move callback runs
computer_move_callback ==
    /\ pending # <<>>
    /\ Len(moves_history) < MaxLiveMarks
    /\ \E w \in computer_move(window, human_is_first) : leaves(w)
    /\ pending' = Tail(pending)
    /\ UNCHANGED human_is_first
    /\ UNCHANGED <<xCtl, oCtl>>
    /\ UNCHANGED buildVars
    /\ UNCHANGED searchVars

\* a click on the reset button or the reset menu entry
reset_clicked ==
    /\ \E w \in reset_game(window, human_is_first) : leaves(w)
    /\ UNCHANGED <<human_is_first, pending>>
    /\ UNCHANGED <<xCtl, oCtl>>
    /\ UNCHANGED buildVars
    /\ UNCHANGED searchVars

\* a choice in the first-player menu
change_first_player(is_first) ==
    /\ human_is_first' = is_first
    /\ \E w \in reset_game(window, is_first) : leaves(w)
    /\ UNCHANGED pending
    /\ UNCHANGED <<xCtl, oCtl>>
    /\ UNCHANGED buildVars
    /\ UNCHANGED searchVars

\* the choice of the random agent in the algorithm menu
change_algorithm ==
    /\ \E w \in reset_game(window, human_is_first) : leaves(w)
    /\ UNCHANGED <<human_is_first, pending>>
    /\ UNCHANGED <<xCtl, oCtl>>
    /\ UNCHANGED buildVars
    /\ UNCHANGED searchVars

InitLive ==
    /\ board = EmptyBoard
    /\ xCtl = "window"
    /\ oCtl = "window"
    /\ BuildIdle
    /\ LiveIdle
    /\ SearchIdle

NextLive ==
    \/ \E index \in Cells : button_click(index)
    \/ computer_move_callback
    \/ reset_clicked
    \/ \E is_first \in BOOLEAN : change_first_player(is_first)
    \/ change_algorithm

SpecLive == InitLive /\ [][NextLive]_vars

-----------------------------------------------------------------------------
(* One call of MinimaxAgent.get_move or of evaluate_state, frame by frame, on
   the list the frames share.  _maximize and _minimize run in the frame of the
   _minimax that called them.  A step is the test at the head of a function,
   a call from a loop, the end of a loop, or a return into the caller *)

\* what an empty cell holds in the list of each function
blank_of(fn) == IF fn = "evaluate_state" THEN "-" ELSE ""

blank_cells(b, blank) == {j \in Cells : b[j] = blank}

\* a frame at its first statement, on the list b as it is passed
frame(fn, mark, depth, is_max, alpha, beta, b) ==
    [fn |-> fn, pc |-> IF fn = "get_move" THEN "loop" ELSE "entry",
     mark |-> mark, depth |-> depth, is_max |-> is_max, alpha |-> alpha, beta |-> beta,
     i |-> 0, best |-> NegInf, best_move |-> None, moves |-> {}, value |-> <<>>,
     empties |-> Cardinality(blank_cells(b, blank_of(fn)))]

\* variant of next_empty in which the loop starts over from the first cell
next_empty_again(f, b) ==
    LET rest == blank_cells(b, blank_of(f.fn))
    IN  IF rest = {} THEN 9 ELSE CHOOSE j \in rest : \A k \in rest : j <= k

\* the next cell the loop of the frame f finds empty, 9 when there is none
next_empty(f, b) ==
    LET rest == {j \in blank_cells(b, blank_of(f.fn)) : j >= f.i}
    IN  IF rest = {} THEN 9 ELSE CHOOSE j \in rest : \A k \in rest : j <= k

\* the mark the loop of the frame f writes into the cell
mover(f) ==
    IF f.fn = "_minimax" /\ ~f.is_max THEN opponent(f.mark) ELSE f.mark

\* the frame of the call the loop of f makes on the list b
callee(f, b) ==
    IF f.fn = "get_move"
    THEN frame("_minimax", f.mark, 0, FALSE, NegInf, PosInf, b)
    ELSE IF f.fn = "_minimax"
    THEN frame("_minimax", f.mark, f.depth + 1, ~f.is_max, f.alpha, f.beta, b)
    ELSE frame("evaluate_state", opponent(f.mark), 0, FALSE, NegInf, PosInf, b)

\* the frame f with pc at its return statement, returning the tuple v
returning(f, v) == [f EXCEPT !.pc = "return", !.value = v]

\* the head of _minimax: a decided or full board returns, else the loop starts
_minimax_entered(f, b) ==
    LET score == _evaluate_board(b, f.mark, opponent(f.mark))
    IN  IF score = 10 THEN returning(f, <<score - f.depth>>)
        ELSE IF score = -10 THEN returning(f, <<score + f.depth>>)
        ELSE IF ~_is_moves_left(b) THEN returning(f, <<0>>)
        ELSE [f EXCEPT !.pc = "loop", !.best = IF f.is_max THEN NegInf ELSE PosInf]

\* the head of evaluate_state
evaluate_state_entered(f, b) ==
    LET winner == check_winner(b)
    IN  IF winner = "X" THEN returning(f, <<1, None>>)
        ELSE IF winner = "O" THEN returning(f, <<-1, None>>)
        ELSE IF \A j \in Cells : b[j] # "-" THEN returning(f, <<0, None>>)
        ELSE [f EXCEPT !.pc = "loop"]

\* get_move after its call returned v: the comparison, then the next cell
get_move_resumed(f, v) ==
    IF v > f.best THEN [f EXCEPT !.best_move = f.i, !.best = v, !.i = f.i + 1]
    ELSE [f EXCEPT !.i = f.i + 1]

\* _maximize after its call returned v: best, alpha, and the break
_maximize_resumed(f, v) ==
    LET nbest == Max(f.best, v)
        nalpha == Max(f.alpha, nbest)
    IN  IF f.beta <= nalpha THEN returning([f EXCEPT !.best = nbest, !.alpha = nalpha], <<nbest>>)
        ELSE [f EXCEPT !.best = nbest, !.alpha = nalpha, !.i = f.i + 1]

\* _minimize after its call returned v
_minimize_resumed(f, v) ==
    LET nbest == Min(f.best, v)
        nbeta == Min(f.beta, nbest)
    IN  IF nbeta <= f.alpha THEN returning([f EXCEPT !.best = nbest, !.beta = nbeta], <<nbest>>)
        ELSE [f EXCEPT !.best = nbest, !.beta = nbeta, !.i = f.i + 1]

\* evaluate_state after its call returned (v, _): moves.append((eval_val, i))
evaluate_state_resumed(f, v) ==
    [f EXCEPT !.moves = f.moves \cup {<<v, f.i>>}, !.i = f.i + 1]

\* the caller f after the call it made from its loop returned v, the first
\* element of what the callee returned
resumed(f, v) ==
    IF f.fn = "get_move" THEN get_move_resumed(f, v)
    ELSE IF f.fn = "evaluate_state" THEN evaluate_state_resumed(f, v)
    ELSE IF f.is_max THEN _maximize_resumed(f, v)
    ELSE _minimize_resumed(f, v)

\* what the frame f returns when its loop has run out of cells
loop_value(f) ==
    IF f.fn = "get_move" THEN <<f.best_move>>
    ELSE IF f.fn = "_minimax" THEN <<f.best>>
    ELSE IF f.mark = "X" THEN max_by_eval(f.moves)
    ELSE min_by_eval(f.moves)

top == stack[Len(stack)]

\* the frames below the innermost one
callers == SubSeq(stack, 1, Len(stack) - 1)

\* the test at the head of the function of the innermost frame
SearchCheck ==
    /\ stack # <<>>
    /\ top.pc = "entry"
    /\ stack' = callers \o <<IF top.fn = "_minimax" THEN _minimax_entered(top, board)
                             ELSE evaluate_state_entered(top, board)>>
    /\ UNCHANGED <<board, xCtl, oCtl, returned>>
    /\ UNCHANGED buildVars
    /\ UNCHANGED liveVars

\* the loop of the innermost frame writes its mark into the next empty cell
\* and makes its call on the list
SearchCall ==
    /\ stack # <<>>
    /\ top.pc = "loop"
    /\ next_empty(top, board) <= 8
    /\ LET j == next_empty(top, board)
       IN  /\ board' = place(board, j, mover(top))
           /\ stack' = callers \o <<[top EXCEPT !.i = j], callee(top, board')>>
    /\ UNCHANGED <<xCtl, oCtl, returned>>
    /\ UNCHANGED buildVars
    /\ UNCHANGED liveVars

\* the loop of the innermost frame has no empty cell left
SearchLoopEnds ==
    /\ stack # <<>>
    /\ top.pc = "loop"
    /\ next_empty(top, board) = 9
    /\ stack' = callers \o <<returning(top, loop_value(top))>>
    /\ UNCHANGED <<board, xCtl, oCtl, returned>>
    /\ UNCHANGED buildVars
    /\ UNCHANGED liveVars

\* the innermost frame returns: its caller empties the cell again and goes
\* on; the outermost frame returns to the program
SearchReturn ==
    /\ stack # <<>>
    /\ top.pc = "return"
    /\ IF Len(stack) = 1
       THEN /\ stack' = <<>>
            /\ returned' = <<[fn |-> top.fn, mark |-> top.mark, value |-> top.value]>>
            /\ UNCHANGED board
       ELSE LET caller == stack[Len(stack) - 1]
            IN  /\ board' = restore_cell(board, caller.i, blank_of(caller.fn))
                /\ stack' = SubSeq(stack, 1, Len(stack) - 2) \o <<resumed(caller, top.value[1])>>
                /\ UNCHANGED returned
    /\ UNCHANGED <<xCtl, oCtl>>
    /\ UNCHANGED buildVars
    /\ UNCHANGED liveVars

\* the boards a search is called on: those whose counts of marks pass
\* is_valid_board, with at most MaxEmptySearch empty cells
SearchBoards ==
    {b \in [Cells -> {"", "X", "O"}] :
        Cardinality(empty_cells(b)) <= MaxEmptySearch /\ is_valid_board(dashed(b))}

InitSearch ==
    /\ \E b \in SearchBoards, mark \in {"X", "O"} :
           \/ /\ board = b
              /\ stack = <<frame("get_move", mark, 0, FALSE, NegInf, PosInf, b)>>
           \/ /\ board = dashed(b)
              /\ stack = <<frame("evaluate_state", mark, 0, FALSE, NegInf, PosInf, dashed(b))>>
    /\ returned = <<>>
    /\ xCtl = "caller"
    /\ oCtl = "caller"
    /\ BuildIdle
    /\ LiveIdle

NextSearch ==
    \/ SearchCheck
    \/ SearchCall
    \/ SearchLoopEnds
    \/ SearchReturn

\* the interpreter goes on to the next statement as long as there is one
SpecSearch == InitSearch /\ [][NextSearch]_vars /\ WF_vars(NextSearch)

-----------------------------------------------------------------------------
(* database/generate_all_states.py: the build, one step per board of the loop *)

\* if count % 1000 == 0: conn.commit()
CommitEvery == 1000

\* the boards of product(marks, repeat=9) that pass is_valid_board, in the
\* order of the loop, among those with at most MaxEmptyBuild empty cells
Enumerated ==
    SelectSeq([n \in 1..ProductSize |-> board_at(n - 1)],
              LAMBDA b : empty_count(b) <= MaxEmptyBuild /\ is_valid_board(b))

\* variant of create_states_table without DROP TABLE IF EXISTS: the rows stay
create_states_table_keep(table) == table

\* DROP TABLE IF EXISTS board_states; CREATE TABLE board_states: no row is left
create_states_table(table) == EmptyTable

RECURSIVE evaluate_calls(_, _)
RECURSIVE evaluate_calls_from(_, _, _)

\* the calls of the loop of evaluate_state from cell i on
evaluate_calls_from(b, next_player, i) ==
    IF i > 8 THEN EmptyBag
    ELSE IF b[i] # "-" THEN evaluate_calls_from(b, next_player, i + 1)
    ELSE evaluate_calls([b EXCEPT ![i] = next_player], opponent(next_player))
         (+) evaluate_calls_from(b, next_player, i + 1)

\* the bag of the states evaluate_state is called on, from one call of
\* evaluate_state(b, next_player) on: the call itself and those of its recursion
evaluate_calls(b, next_player) ==
    LET self == SetToBag({generate_state_id(b, next_player)})
    IN  IF check_winner(b) # NoWinner \/ (\A i \in Cells : b[i] # "-") THEN self
        ELSE self (+) evaluate_calls_from(b, next_player, 0)

\* a row left in the table by an earlier use of the database file
StaleRow ==
    [board_state |-> board_text(board_at(0)), next_player |-> "X", best_move |-> 0,
     evaluation |-> 0, is_terminal |-> FALSE]

\* the table before the first build: none, or one with a row under the key
\* of the first board the build stores, or one with a row under another key
TablesBefore ==
    LET first == CHOOSE k \in 1..Len(Enumerated) :
                    /\ check_winner(Enumerated[k]) = NoWinner
                    /\ empty_count(Enumerated[k]) > 0
                    /\ \A j \in 1..(k - 1) : \/ check_winner(Enumerated[j]) # NoWinner
                                             \/ empty_count(Enumerated[j]) = 0
        b == Enumerated[first]
    IN  {EmptyTable,
         generate_state_id(b, next_player_of(b)) :> StaleRow,
         generate_state_id(board_at(0), "X") :> StaleRow}

InitBuild ==
    /\ board = EmptyBoard
    /\ xCtl = "none"
    /\ oCtl = "none"
    /\ committed \in TablesBefore
    /\ store = committed
    /\ processed_states = {}
    /\ count = 0
    /\ pos = 0
    /\ phase = "idle"
    /\ evaluated = EmptyBag
    /\ runs = 0
    /\ prevRows = EmptyTable
    /\ prevCount = 0
    /\ LiveIdle
    /\ SearchIdle

\* generate_all_states up to the loop: connect, create_states_table, the locals
StartBuild ==
    /\ phase \in {"idle", "done"}
    /\ runs < MaxRuns
    /\ store' = create_states_table(committed)
    /\ committed' = store'
    /\ processed_states' = {}
    /\ count' = 0
    /\ pos' = 0
    /\ evaluated' = EmptyBag
    /\ runs' = runs + 1
    /\ prevRows' = (IF phase = "done" THEN committed ELSE prevRows)
    /\ prevCount' = (IF phase = "done" THEN count ELSE prevCount)
    /\ phase' = "running"
    /\ UNCHANGED playVars
    /\ UNCHANGED searchVars
    /\ UNCHANGED liveVars

\* one pass of the loop body, for the next board of boards
LoopBody(boards) ==
    /\ phase = "running"
    /\ pos < Len(boards)
    /\ LET b == boards[pos + 1]
           winner == check_winner(b)
           is_terminal == \A i \in Cells : b[i] # "-"
           next_player == next_player_of(b)
           result == evaluate_state(b, next_player)
           state_id == generate_state_id(b, next_player)
       IN  IF winner # NoWinner \/ is_terminal
           THEN \* nothing is evaluated, nothing is inserted
                /\ pos' = pos + 1
                /\ UNCHANGED <<store, committed, processed_states, count, phase, evaluated>>
           ELSE IF state_id \in processed_states
           THEN /\ pos' = pos + 1
                /\ evaluated' = evaluated (+) evaluate_calls(b, next_player)
                /\ UNCHANGED <<store, committed, processed_states, count, phase>>
           ELSE IF state_id \in DOMAIN store
           THEN \* sqlite3.IntegrityError on the PRIMARY KEY: the run ends, the
                \* open transaction is lost
                /\ phase' = "error"
                /\ store' = committed
                /\ evaluated' = evaluated (+) evaluate_calls(b, next_player)
                /\ UNCHANGED <<committed, processed_states, count, pos>>
           ELSE /\ pos' = pos + 1
                /\ evaluated' = evaluated (+) evaluate_calls(b, next_player)
                /\ store' = store @@ (state_id :>
                                [board_state |-> board_text(b),
                                 next_player |-> next_player,
                                 best_move |-> result[2],
                                 evaluation |-> result[1],
                                 is_terminal |-> is_terminal])
                /\ processed_states' = processed_states \cup {state_id}
                /\ count' = count + 1
                /\ committed' = (IF count' % CommitEvery = 0 THEN store' ELSE committed)
                /\ UNCHANGED phase
    /\ UNCHANGED <<runs, prevRows, prevCount>>
    /\ UNCHANGED playVars
    /\ UNCHANGED searchVars
    /\ UNCHANGED liveVars

\* one pass of the loop body, for the next board that passes is_valid_board
ProcessBoard == LoopBody(Enumerated)

\* after the loop over boards: conn.commit(), conn.close(), the total is printed
AfterLoop(boards) ==
    /\ phase = "running"
    /\ pos = Len(boards)
    /\ committed' = store
    /\ phase' = "done"
    /\ UNCHANGED <<store, processed_states, count, pos, evaluated, runs, prevRows, prevCount>>
    /\ UNCHANGED playVars
    /\ UNCHANGED searchVars
    /\ UNCHANGED liveVars

FinishBuild == AfterLoop(Enumerated)

NextBuild ==
    \/ StartBuild
    \/ ProcessBoard
    \/ FinishBuild

SpecBuild == InitBuild /\ [][NextBuild]_vars

-----------------------------------------------------------------------------
(* database/generate_all_states.py: a build that meets a storage failure *)

\* the enumeration of a build over the boards with at most MaxEmptyFail empty cells
EnumeratedDeep ==
    SelectSeq([n \in 1..ProductSize |-> board_at(n - 1)],
              LAMBDA b : empty_count(b) <= MaxEmptyFail /\ is_valid_board(b))

\* variant of lost_transaction in which the rows of the open transaction
\* reach the file when the run ends on an error
lost_transaction_kept(st, com) == st

\* the database file after sqlite3 raised in generate_all_states: nothing
\* catches the error, the connection goes with its open transaction st, and
\* the file keeps com, the rows of the last conn.commit()
lost_transaction(st, com) == com

\* cursor.execute(INSERT ...) raises sqlite3.Error: the statement inserts no row
InsertFails ==
    /\ phase = "running"
    /\ pos < Len(EnumeratedDeep)
    /\ LET b == EnumeratedDeep[pos + 1]
           next_player == next_player_of(b)
           state_id == generate_state_id(b, next_player)
       IN  /\ check_winner(b) = NoWinner
           /\ \E i \in Cells : b[i] = "-"
           /\ state_id \notin processed_states
           /\ evaluated' = evaluated (+) evaluate_calls(b, next_player)
           /\ committed' = lost_transaction(store, committed)
           /\ store' = committed'
           /\ phase' = "error"
    /\ UNCHANGED <<processed_states, count, pos, runs, prevRows, prevCount>>
    /\ UNCHANGED playVars
    /\ UNCHANGED searchVars
    /\ UNCHANGED liveVars

\* conn.commit() raises sqlite3.Error: after the insert that makes count a
\* multiple of CommitEvery, or after the loop
CommitFails ==
    /\ phase = "running"
    /\ \/ /\ pos < Len(EnumeratedDeep)
          /\ LET b == EnumeratedDeep[pos + 1]
                 next_player == next_player_of(b)
                 result == evaluate_state(b, next_player)
                 state_id == generate_state_id(b, next_player)
                 row == [board_state |-> board_text(b),
                         next_player |-> next_player,
                         best_move |-> result[2],
                         evaluation |-> result[1],
                         is_terminal |-> FALSE]
             IN  /\ check_winner(b) = NoWinner
                 /\ \E i \in Cells : b[i] = "-"
                 /\ state_id \notin processed_states
                 /\ state_id \notin DOMAIN store
                 /\ (count + 1) % CommitEvery = 0
                 /\ evaluated' = evaluated (+) evaluate_calls(b, next_player)
                 /\ processed_states' = processed_states \cup {state_id}
                 /\ count' = count + 1
                 /\ committed' = lost_transaction(store @@ (state_id :> row), committed)
       \/ /\ pos = Len(EnumeratedDeep)
          /\ committed' = lost_transaction(store, committed)
          /\ UNCHANGED <<processed_states, count, evaluated>>
    /\ store' = committed'
    /\ phase' = "error"
    /\ UNCHANGED <<pos, runs, prevRows, prevCount>>
    /\ UNCHANGED playVars
    /\ UNCHANGED searchVars
    /\ UNCHANGED liveVars

\* the last build of a sequence, on an empty database file
InitFail ==
    /\ board = EmptyBoard
    /\ xCtl = "none"
    /\ oCtl = "none"
    /\ store = EmptyTable
    /\ committed = EmptyTable
    /\ processed_states = {}
    /\ count = 0
    /\ pos = 0
    /\ phase = "idle"
    /\ evaluated = EmptyBag
    /\ runs = MaxRuns - 1
    /\ prevRows = EmptyTable
    /\ prevCount = 0
    /\ LiveIdle
    /\ SearchIdle

NextFail ==
    \/ StartBuild
    \/ LoopBody(EnumeratedDeep)
    \/ AfterLoop(EnumeratedDeep)
    \/ InsertFails
    \/ CommitFails

SpecFail == InitFail /\ [][NextFail]_vars

-----------------------------------------------------------------------------
(* Game-theoretic outcome of a position, by exhaustive play *)

RECURSIVE CanForceWin(_, _)
\* mark p wins from board b whatever the other side plays
CanForceWin(b, p) ==
    IF HasLine(b, p) THEN TRUE
    ELSE IF HasLine(b, opponent(p)) \/ empty_cells(b) = {} THEN FALSE
    ELSE IF to_move(b) = p
         THEN \E i \in empty_cells(b) : CanForceWin(place(b, i, p), p)
         ELSE \A i \in empty_cells(b) : CanForceWin(place(b, i, opponent(p)), p)

\* the result for mark p of best play by both sides from board b
Outcome(b, p) ==
    IF CanForceWin(b, p) THEN "win"
    ELSE IF CanForceWin(b, opponent(p)) THEN "loss"
    ELSE "draw"

Sign(n) == IF n > 0 THEN 1 ELSE IF n < 0 THEN -1 ELSE 0

\* the live board is not decided and within the bound of the per-board checks
Answerable ==
    /\ ~GameOver(board)
    /\ Cardinality(empty_cells(board)) <= MaxEmptyPlay

-----------------------------------------------------------------------------
(* Claims on the agents *)

\* the row of the complete table for the live board and the mark to move
live_row == built_table(9)[_generate_state_id(board, to_move(board))]

\* what the perfect agent answers on the live board for the mark to move
live_answer == PerfectAgent_get_move(built_table(9), FALSE, board, to_move(board))

\* what the minimax agent computes on the live board: <<best_val, best_move>>
live_search == get_move_from(board, 0, NegInf, None, to_move(board))

\* C1: on every board of legal play and for the mark to move, if some legal
\* move leaves the opponent without a forced win, the move MinimaxAgent.get_move
\* returns is a legal move that leaves the opponent without a forced win.
C1_MinimaxAvoidsForcedLoss ==
    Answerable =>
        LET p == to_move(board)
            move == MinimaxAgent_get_move(board, p)
        IN  (\E i \in empty_cells(board) : ~CanForceWin(place(board, i, p), opponent(p)))
            => /\ move \in empty_cells(board)
               /\ ~CanForceWin(place(board, move, p), opponent(p))

\* a board with a losing and a non-losing move, where the search took a non-losing one
C1_Witness ==
    /\ Answerable
    /\ LET p == to_move(board)
           move == MinimaxAgent_get_move(board, p)
       IN  /\ \E i \in empty_cells(board) : CanForceWin(place(board, i, p), opponent(p))
           /\ \E i \in empty_cells(board) : ~CanForceWin(place(board, i, p), opponent(p))
           /\ move \in empty_cells(board)
           /\ ~CanForceWin(place(board, move, p), opponent(p))

\* C2: in a game from the empty board where one side always plays the move of
\* PerfectAgent.get_move on the complete table and the other side plays any
\* legal move, the opponent of the perfect side never completes a line.
C2_PerfectNeverLoses ==
    /\ xCtl = "perfect" => ~HasLine(board, "O")
    /\ oCtl = "perfect" => ~HasLine(board, "X")

\* a game the perfect agent played to the end as O, and won
C2_Witness == oCtl = "perfect" /\ xCtl = "human" /\ HasLine(board, "O")

\* C3: for every undecided board of legal play, the key PerfectAgent computes
\* for (board, mover) is in the complete table with a best_move that is an
\* empty cell, and get_move returns exactly that move without a diagnostic.
C3_OracleHit ==
    Answerable =>
        /\ _generate_state_id(board, to_move(board)) \in DOMAIN built_table(9)
        /\ LET row == live_row
               answer == live_answer
           IN  /\ row.best_move \in empty_cells(board)
               /\ answer = [moves |-> {row.best_move}, diag |-> "none"]

\* an undecided board where the stored move is not the lowest empty cell
C3_Witness ==
    /\ Answerable
    /\ live_answer.diag = "none"
    /\ \E i \in empty_cells(board) : \A m \in live_answer.moves : i < m

\* C4: for every undecided board of legal play the move of the search and the
\* stored best_move lead to positions of the same outcome for the mover, and
\* the sign of the search's best root value is the stored evaluation seen
\* from the mover's side.
C4_SearchAgreesWithOracle ==
    Answerable =>
        LET p == to_move(board)
            row == live_row
            search == live_search
        IN  /\ search[2] \in empty_cells(board)
            /\ row.best_move \in empty_cells(board)
            /\ Outcome(place(board, search[2], p), p)
                  = Outcome(place(board, row.best_move, p), p)
            /\ Sign(search[1]) = (IF p = "X" THEN row.evaluation ELSE -row.evaluation)

\* a board where the two agents choose different cells of the same outcome
C4_Witness ==
    /\ Answerable
    /\ live_search[2] # live_row.best_move
    /\ Outcome(place(board, live_search[2], to_move(board)), to_move(board)) = "win"
    /\ Outcome(place(board, live_row.best_move, to_move(board)), to_move(board)) = "win"

\* C5: the empty board with X to move is a draw for both components: the
\* stored evaluation is 0, the search's best root value is 0, and a game in
\* which every move is the move of one of the two agents never shows a
\* completed line, so it ends on a full board without a winner.
C5_OpeningIsDraw ==
    (xCtl = "agent" /\ oCtl = "agent") =>
        /\ board = EmptyBoard => /\ live_row.evaluation = 0
                                 /\ live_search[1] = 0
        /\ ~HasLine(board, "X")
        /\ ~HasLine(board, "O")
        /\ ~GameOver(board) => live_search[2] \in empty_cells(board)

\* a game between the agents that reached the full board
C5_Witness == xCtl = "agent" /\ oCtl = "agent" /\ empty_cells(board) = {}

\* the board [X,O,X,O,X,O,_,_,_] of C6
Scenario6 ==
    [i \in Cells |-> IF i \in {0, 2, 4} THEN "X" ELSE IF i \in {1, 3, 5} THEN "O" ELSE ""]

\* C6 as stated: on [X,O,X,O,X,O,_,_,_] with mark X both agents return a move
\* in {6,7,8} and best play by both sides after that move ends in a draw.
C6_ScenarioDraws ==
    board = Scenario6 =>
        /\ live_search[2] \in {6, 7, 8}
        /\ live_answer.moves \subseteq {6, 7, 8}
        /\ Outcome(place(board, live_search[2], "X"), "X") = "draw"
        /\ \A m \in live_answer.moves : Outcome(place(board, m, "X"), "X") = "draw"

\* C6 amended: on [X,O,X,O,X,O,_,_,_] with mark X both agents return cell 6,
\* a move in {6,7,8} that completes the line 2-4-6: X wins at once, no draw.
C6_ScenarioWins ==
    board = Scenario6 =>
        /\ live_search[2] = 6
        /\ live_answer = [moves |-> {6}, diag |-> "none"]
        /\ HasLine(place(board, 6, "X"), "X")

\* the scenario board is reached and both agents answer on it
C6_Witness ==
    /\ board = Scenario6
    /\ to_move(board) = "X"
    /\ Answerable
    /\ live_search[2] \in {6, 7, 8}
    /\ live_answer.moves \subseteq {6, 7, 8}

\* the board [X,X,_,O,O,_,_,_,_] of C16
Scenario16 ==
    [i \in Cells |-> IF i \in {0, 1} THEN "X" ELSE IF i \in {3, 4} THEN "O" ELSE ""]

\* C16: on [X,X,_,O,O,_,_,_,_] with mark X MinimaxAgent.get_move returns 2 and
\* PerfectAgent.get_move on the table of a complete build returns 2.
C16_ScenarioTakesTheWin ==
    board = Scenario16 =>
        /\ MinimaxAgent_get_move(board, "X") = 2
        /\ PerfectAgent_get_move(built_table(9), FALSE, board, "X")
               = [moves |-> {2}, diag |-> "none"]

\* the scenario board is reached with X to move, and cell 2 completes the top row
C16_Witness ==
    /\ board = Scenario16
    /\ to_move(board) = "X"
    /\ Answerable
    /\ live_search[2] = 2
    /\ HasLine(place(board, 2, "X"), "X")

-----------------------------------------------------------------------------
(* Claims on the build *)

\* board b has a complete line of mark m
wins(b, m) ==
    \E k \in 1..Len(get_win_patterns) :
        /\ pattern_wins(b, get_win_patterns[k])
        /\ b[get_win_patterns[k][1]] = m

\* the state ids of the enumerated boards with no winner and an empty cell
open_ids ==
    {generate_state_id(Enumerated[k], next_player_of(Enumerated[k])) :
        k \in {j \in 1..Len(Enumerated) :
                 /\ check_winner(Enumerated[j]) = NoWinner
                 /\ empty_count(Enumerated[j]) > 0}}

\* C7 as stated: no board the enumeration of generate_all_states yields (a
\* board passing is_valid_board) has a complete line of X and, at the same
\* time, a complete line of O.
C7_NoDoubleWinner ==
    pos > 0 => ~(wins(Enumerated[pos], "X") /\ wins(Enumerated[pos], "O"))

\* C8 as stated: during one build each distinct (board, next mover) state is
\* evaluated by evaluate_state exactly once, also when it is a child of several
\* parents or both an enumerated root and a descendant.
C8_EvaluatedOnce ==
    /\ \A state_id \in BagToSet(evaluated) : CopiesIn(state_id, evaluated) = 1
    /\ phase = "done" => \A state_id \in open_ids : BagIn(state_id, evaluated)

\* C9 as stated: after a complete build every enumerated state has an entry in
\* the store, terminal states included: score +1 or -1 and no best_move with a
\* winning line, score 0 and no best_move on a full board without winner, and
\* best_move is absent exactly in the entries of terminal states.
C9_EveryStateStored ==
    phase = "done" =>
        \A k \in 1..Len(Enumerated) :
            LET b == Enumerated[k]
                state_id == generate_state_id(b, next_player_of(b))
                winner == check_winner(b)
                terminal == winner # NoWinner \/ empty_count(b) = 0
            IN  /\ state_id \in DOMAIN committed
                /\ winner = "X" => committed[state_id].evaluation = 1
                /\ winner = "O" => committed[state_id].evaluation = -1
                /\ (winner = NoWinner /\ terminal) => committed[state_id].evaluation = 0
                /\ (committed[state_id].best_move = None) <=> terminal

\* C10: a build leaves the same rows and reports the same count whatever the
\* table held before: a second build in a row, or a build over a table that
\* already has rows, ends without error with exactly the rows and the count of
\* one build from an empty store.
C10_RebuildIdempotent ==
    /\ phase # "error"
    /\ phase = "done" =>
          /\ DOMAIN committed = open_ids
          /\ \A state_id \in open_ids :
                 committed[state_id] = built_table(MaxEmptyBuild)[state_id]
          /\ count = Cardinality(open_ids)
    /\ (phase = "done" /\ runs >= 2) =>
          /\ committed = prevRows
          /\ count = prevCount

\* a second build has ended over the rows of the first one
C10_Witness ==
    /\ phase = "done"
    /\ runs >= 2
    /\ prevRows # EmptyTable
    /\ committed = prevRows
    /\ count = prevCount
    /\ count > 0

-----------------------------------------------------------------------------
(* Claims on a build that fails *)

\* the rows a complete build over EnumeratedDeep stores, by state id
rows_deep ==
    LET open == {k \in 1..Len(EnumeratedDeep) :
                    /\ check_winner(EnumeratedDeep[k]) = NoWinner
                    /\ empty_count(EnumeratedDeep[k]) > 0}
    IN  [state_id \in {generate_state_id(EnumeratedDeep[k], next_player_of(EnumeratedDeep[k])) :
                          k \in open}
            |-> inserted_row(board_of_id(state_id))]

\* the state id of the board the loop was at when the build failed
failed_id ==
    generate_state_id(EnumeratedDeep[pos + 1], next_player_of(EnumeratedDeep[pos + 1]))

\* C11: when sqlite3 raises at an INSERT or at a commit the build ends, every
\* committed row is the complete row of its state, the entry the loop was at is
\* not committed, and the step of the failure leaves the committed rows (those
\* of the earlier commits of CommitEvery inserts) as they were.
C11_FailureKeepsCommitted ==
    /\ [](phase = "error" =>
            /\ \A state_id \in DOMAIN committed :
                   /\ state_id \in DOMAIN rows_deep
                   /\ committed[state_id] = rows_deep[state_id]
            /\ pos < Len(EnumeratedDeep) => failed_id \notin DOMAIN committed)
    /\ [][phase' = "error" => committed' = committed]_vars

\* a failure after a commit of CommitEvery rows, with inserted rows not yet committed
C11_Witness ==
    /\ phase = "error"
    /\ Cardinality(DOMAIN committed) = CommitEvery
    /\ count > CommitEvery
    /\ pos < Len(EnumeratedDeep)

\* C15: every key the build stores is of a board with count(X) - count(O) in
\* {0, 1}, names X as the mover when the counts are equal and O when X leads
\* by one, as the row's next_player does: the tables start empty, every step
\* adds such keys only and commits nothing but stored rows; the all-empty board
\* with O to move is never a key.
C15_StoredKeysParity ==
    /\ [](/\ generate_state_id(dashed(EmptyBoard), "O")
                \notin DOMAIN store \cup DOMAIN committed
          /\ generate_state_id(dashed(EmptyBoard), "O") \notin inserted_ids(9)
          /\ phase = "idle" => store = EmptyTable /\ committed = EmptyTable)
    /\ [][/\ committed' = committed \/ committed' = store'
          /\ \A state_id \in DOMAIN store' \ DOMAIN store :
               LET b == board_of_id(state_id)
                   lead == mark_count(b, "X") - mark_count(b, "O")
               IN  /\ lead \in {0, 1}
                   /\ lead = 0 => state_id[11] = "X"
                   /\ lead = 1 => state_id[11] = "O"
                   /\ store'[state_id].next_player = state_id[11]]_vars

\* keys of both movers are stored
C15_Witness ==
    /\ \E state_id \in DOMAIN store :
           /\ state_id[11] = "X"
           /\ mark_count(board_of_id(state_id), "X") = mark_count(board_of_id(state_id), "O")
    /\ \E state_id \in DOMAIN store :
           /\ state_id[11] = "O"
           /\ mark_count(board_of_id(state_id), "X") = mark_count(board_of_id(state_id), "O") + 1

-----------------------------------------------------------------------------
(* Claims on the window *)

\* a scheduled computer_move callback runs in a game other than the one that
\* scheduled it and places a mark
StaleCallbackMoves ==
    /\ pending # <<>>
    /\ pending' = Tail(pending)
    /\ Head(pending) # game
    /\ moves_history' # moves_history

\* C17: in every state of the window, under any order of cell clicks,
\* scheduled computer_move callbacks and resets, count(X) - count(O) is 0 or 1
\* and no two consecutive moves of a game are of the same mark; no callback
\* places a mark in a game other than the one that scheduled it.
C17_LiveAlternation ==
    /\ [](/\ mark_count(board, "X") - mark_count(board, "O") \in {0, 1}
          /\ \A k \in 1..(Len(moves_history) - 1) :
                 moves_history[k][2] # moves_history[k + 1][2])
    /\ [][~StaleCallbackMoves]_vars

-----------------------------------------------------------------------------
(* Claims on single calls of the agents *)

\* what a get_move that answers must return on b: an empty cell, or None
\* when b has none
some_empty_cell(b) == IF empty_cells(b) # {} THEN empty_cells(b) ELSE {None}

\* the lookup of (b, player) in st cannot be answered from the table
must_recover(st, db_error, b, player) ==
    LET state_id == _generate_state_id(b, player)
    IN  \/ db_error
        \/ state_id \notin DOMAIN st
        \/ st[state_id].best_move = None
        \/ st[state_id].best_move \notin empty_cells(b)

\* C12: when the lookup misses, or the stored best_move is absent, out of
\* range or on an occupied cell, or sqlite3 raises, PerfectAgent.get_move
\* prints a diagnostic and returns a value (it raises nothing) that is one of
\* the empty cells of the board, None when the board has none.
C12_PerfectAgentRecovers ==
    \A player \in {"X", "O"}, db_error \in BOOLEAN :
        \A st \in StoresFor(board, player) :
            LET answer == PerfectAgent_get_move(st, db_error, board, player)
            IN  must_recover(st, db_error, board, player) =>
                    /\ answer.diag # "none"
                    /\ answer.moves # {}
                    /\ answer.moves \subseteq some_empty_cell(board)

\* a board with empty and occupied cells on which every recovery path is taken
C12_Witness ==
    /\ empty_cells(board) # {}
    /\ empty_cells(board) # Cells
    /\ \A diag \in {"not_found", "invalid_move", "db_error"} :
           \E db_error \in BOOLEAN, st \in StoresFor(board, "X") :
               LET answer == PerfectAgent_get_move(st, db_error, board, "X")
               IN  /\ answer.diag = diag
                   /\ answer.moves = empty_cells(board)
    /\ \E i \in Cells :
           /\ board[i] # ""
           /\ PerfectAgent_get_move(row_with(board, "X", i), FALSE, board, "X").diag
                  = "invalid_move"

\* C13: get_move of the minimax, the perfect and the random agent returns
\* None exactly when the board has no empty cell, and otherwise the index of
\* an empty cell, on every board and whatever the table holds.
C13_NoneIffFull ==
    \A player \in {"X", "O"} :
        LET full == empty_cells(board) = {}
            answers(moves) ==
                \A move \in moves :
                    /\ move = None <=> full
                    /\ move # None => move \in empty_cells(board)
        IN  /\ answers({MinimaxAgent_get_move(board, player)})
            /\ answers(RandomAgent_get_move(board, player))
            /\ \A db_error \in BOOLEAN, st \in StoresFor(board, player) :
                   answers(PerfectAgent_get_move(st, db_error, board, player).moves)

\* a full board, on which the three agents return None
C13_Witness ==
    /\ empty_cells(board) = {}
    /\ MinimaxAgent_get_move(board, "X") = None
    /\ RandomAgent_get_move(board, "X") = {None}
    /\ PerfectAgent_get_move(EmptyTable, FALSE, board, "X").moves = {None}

\* C14: check_winner returns None exactly when no line holds three equal
\* marks, and the mark when exactly one mark has a line; _evaluate_board agrees
\* with it: 0, 10 for a line of the player only, -10 for one of the opponent only.
C14_WinnerIffLine ==
    LET winner == check_winner(dashed(board))
        x_line == HasLine(board, "X")
        o_line == HasLine(board, "O")
    IN  /\ winner = NoWinner <=> ~x_line /\ ~o_line
        /\ x_line /\ ~o_line => winner = "X"
        /\ o_line /\ ~x_line => winner = "O"
        /\ winner \in {NoWinner, "X", "O"}
        /\ \A player \in {"X", "O"} :
               LET score == _evaluate_board(board, player, opponent(player))
                   own == HasLine(board, player)
                   other == HasLine(board, opponent(player))
               IN  /\ score = 0 <=> ~own /\ ~other
                   /\ own /\ ~other => score = 10
                   /\ other /\ ~own => score = -10

\* a board with a line of X, none of O and a line of empty cells
C14_Witness ==
    /\ HasLine(board, "X")
    /\ ~HasLine(board, "O")
    /\ HasLine(board, "")
    /\ check_winner(dashed(board)) = "X"
    /\ _evaluate_board(board, "O", "X") = -10

RECURSIVE plain_minimax(_, _, _, _, _)
\* the depth-adjusted minimax of _minimax with every empty cell searched
plain_minimax(b, depth, is_max, player_mark, opponent_mark) ==
    LET score == _evaluate_board(b, player_mark, opponent_mark)
        values == {plain_minimax([b EXCEPT ![i] = IF is_max THEN player_mark
                                                  ELSE opponent_mark],
                                 depth + 1, ~is_max, player_mark, opponent_mark) :
                       i \in empty_cells(b)}
    IN  IF score = 10 THEN score - depth
        ELSE IF score = -10 THEN score + depth
        ELSE IF empty_cells(b) = {} THEN 0
        ELSE IF is_max THEN CHOOSE v \in values : \A u \in values : u <= v
        ELSE CHOOSE v \in values : \A u \in values : v <= u

\* the value of the root candidate i for player without pruning
plain_root(b, i, player) ==
    plain_minimax([b EXCEPT ![i] = player], 0, FALSE, player, opponent(player))

\* the index get_move returns when value[i] is the value of the root candidate i:
\* the lowest index of the greatest value, None without a candidate
first_best(value) ==
    IF DOMAIN value = {} THEN None
    ELSE CHOOSE i \in DOMAIN value :
             \A j \in DOMAIN value :
                 value[j] < value[i] \/ (value[j] = value[i] /\ i <= j)

\* the values of the root candidates of b for player without pruning
plain_roots(b, player) == [i \in empty_cells(b) |-> plain_root(b, i, player)]

\* C18: for every board and mark, the value _minimax returns for each root
\* candidate, called with the bounds -inf and +inf, is the value of the same
\* minimax without pruning, and get_move returns the index the unpruned
\* search returns.
C18_PruningKeepsResult ==
    \A player \in {"X", "O"} :
        LET plain == plain_roots(board, player)
        IN  /\ \A i \in empty_cells(board) :
                   _minimax([board EXCEPT ![i] = player], 0, FALSE, NegInf, PosInf,
                            player, opponent(player)) = plain[i]
            /\ MinimaxAgent_get_move(board, player) = first_best(plain)

\* a board whose root candidates differ in value and on which the break of
\* _maximize is taken when the bounds are narrow
C18_Witness ==
    /\ \E i, j \in empty_cells(board) :
           plain_root(board, i, "X") < plain_root(board, j, "X")
    /\ _minimax(board, 0, TRUE, NegInf, 0, "X", "O") # plain_minimax(board, 0, TRUE, "X", "O")
    /\ MinimaxAgent_get_move(board, "X") = first_best(plain_roots(board, "X"))

\* C19: when MinimaxAgent.get_move returns, and when evaluate_state returns,
\* the list passed in holds what it held at the call, every frame of
\* _maximize, _minimize and evaluate_state below, those left by a break
\* included, has returned the list it received, and the values are those of
\* the searches on boards of their own.
C19_ScratchRestored ==
    \A player \in {"X", "O"} :
        LET search == get_move_in_place(board, player)
            stored == evaluate_state_in_place(dashed(board), player)
        IN  /\ search.board = board
            /\ search.frames
            /\ search.value = MinimaxAgent_get_move(board, player)
            /\ stored.board = dashed(board)
            /\ stored.frames
            /\ stored.value = evaluate_state(dashed(board), player)

\* a board on which a loop of _maximize is left by its break, at the root of
\* a search with narrow bounds, and the list is as it was
C19_Witness ==
    /\ Cardinality(empty_cells(board)) >= 3
    /\ ~GameOver(board)
    /\ _minimax(board, 0, TRUE, NegInf, 0, "X", "O") < plain_minimax(board, 0, TRUE, "X", "O")
    /\ _minimax_in_place(board, 0, TRUE, NegInf, 0, "X", "O").board = board
    /\ get_move_in_place(board, "X").board = board
    /\ evaluate_state_in_place(dashed(board), "X").board = dashed(board)

\* C20: on every board without a winner and with an empty cell, for either
\* mover, evaluate_state returns a score in {-1, 0, 1} that is the greatest
\* score of the boards after one move when the mover is X, the least when the
\* mover is O, and as best move the lowest empty cell whose board has that
\* score; the row stored for the board holds that score and that move.
C20_ScoreIsBestChild ==
    \A player \in {"X", "O"} :
        LET b == dashed(board)
            result == evaluate_state(b, player)
            scores == [i \in empty_cells(board) |->
                          evaluate_state([b EXCEPT ![i] = player], opponent(player))[1]]
        IN  check_winner(b) = NoWinner /\ empty_cells(board) # {} =>
                /\ result[1] \in {-1, 0, 1}
                /\ \A i \in empty_cells(board) :
                       IF player = "X" THEN scores[i] <= result[1]
                       ELSE scores[i] >= result[1]
                /\ result[2] \in empty_cells(board)
                /\ scores[result[2]] = result[1]
                /\ \A i \in empty_cells(board) : scores[i] = result[1] => result[2] <= i
                /\ is_valid_board(b) /\ player = next_player_of(b) =>
                       /\ inserted_row(b).evaluation = result[1]
                       /\ inserted_row(b).best_move = result[2]
                       /\ inserted_row(b).evaluation = scores[inserted_row(b).best_move]

\* a board stored by the build on which X is to move, two empty cells have the
\* best score and a lower empty cell has a worse one
C20_Witness ==
    LET b == dashed(board)
        result == evaluate_state(b, "X")
        scores == [i \in empty_cells(board) |->
                      evaluate_state([b EXCEPT ![i] = "X"], "O")[1]]
    IN  /\ check_winner(b) = NoWinner
        /\ is_valid_board(b)
        /\ next_player_of(b) = "X"
        /\ \E i, j \in empty_cells(board) :
               i < j /\ scores[i] = result[1] /\ scores[j] = result[1]
        /\ \E i \in empty_cells(board) : i < result[2] /\ scores[i] < result[1]
        /\ inserted_row(b).best_move = result[2]
RECURSIVE depth_value(_, _, _, _)
\* the value of board b at depth d for mark, mark to move when is_max: a line
\* of mark is worth 10 - d, a line of the opponent -10 + d, a full board
\* without a line 0, any other board the best value one ply deeper for the
\* side to move
depth_value(b, d, is_max, mark) ==
    LET values == {depth_value(place(b, i, IF is_max THEN mark ELSE opponent(mark)),
                               d + 1, ~is_max, mark) : i \in empty_cells(b)}
    IN  IF HasLine(b, mark) THEN 10 - d
        ELSE IF HasLine(b, opponent(mark)) THEN d - 10
        ELSE IF empty_cells(b) = {} THEN 0
        ELSE IF is_max THEN CHOOSE v \in values : \A u \in values : u <= v
        ELSE CHOOSE v \in values : \A u \in values : v <= u

\* the value of each candidate of mark on b, at depth 0 right after the move
candidate_values(b, mark) ==
    [i \in empty_cells(b) |-> depth_value(place(b, i, mark), 0, FALSE, mark)]

\* a board holding a line of each mark: which of them has won is not defined
contested(b) == HasLine(b, "X") /\ HasLine(b, "O")

\* C21: on every board on which no candidate move leaves a line of each
\* mark, MinimaxAgent.get_move returns the lowest index among the empty
\* cells whose depth-adjusted value is greatest (None on a full board), the
\* value _minimax returns for each candidate being that value: 10 - d for a
\* leaf won by mark at depth d, -10 + d for a leaf won by the opponent, 0 for
\* a full board without winner, depth 0 right after the candidate move.
C21_LowestBestCandidate ==
    \A mark \in {"X", "O"} :
        LET values == candidate_values(board, mark)
        IN  (\A i \in empty_cells(board) : ~contested(place(board, i, mark))) =>
                /\ \A i \in empty_cells(board) :
                       _minimax(place(board, i, mark), 0, FALSE, NegInf, PosInf,
                                mark, opponent(mark)) = values[i]
                /\ MinimaxAgent_get_move(board, mark) = first_best(values)

\* a board without a line on which X's greatest value is that of a win two
\* plies after the candidate, two candidates have it, a lower cell has a
\* smaller value, and get_move returns the lower of the two
C21_Witness ==
    LET values == candidate_values(board, "X")
        move == MinimaxAgent_get_move(board, "X")
    IN  /\ ~HasLine(board, "X") /\ ~HasLine(board, "O")
        /\ move # None
        /\ values[move] = 8
        /\ \A i \in empty_cells(board) : values[i] <= 8
        /\ \E j \in empty_cells(board) : move < j /\ values[j] = 8
        /\ \E i \in empty_cells(board) : i < move /\ values[i] < 8

\* the empty cells at which mark completes a line of its own
winning_cells(b, mark) == {i \in empty_cells(b) : HasLine(place(b, i, mark), mark)}

\* C22: on every board without a line of either mark on which mark has an
\* empty cell that completes a line of mark, MinimaxAgent.get_move returns
\* the lowest such cell, whatever wins the other cells force.
C22_TakesFastestWin ==
    \A mark \in {"X", "O"} :
        LET wins_now == winning_cells(board, mark)
        IN  ~HasLine(board, "X") /\ ~HasLine(board, "O") /\ wins_now # {} =>
                /\ MinimaxAgent_get_move(board, mark) \in wins_now
                /\ \A i \in wins_now : MinimaxAgent_get_move(board, mark) <= i

\* a board without a line on which X can complete a line at two cells, a
\* lower cell completes none but forces a win two plies later, and get_move
\* returns the lower of the two completing cells
C22_Witness ==
    LET wins_now == winning_cells(board, "X")
        move == MinimaxAgent_get_move(board, "X")
    IN  /\ ~HasLine(board, "X") /\ ~HasLine(board, "O")
        /\ move \in wins_now
        /\ \E j \in wins_now : move < j
        /\ \E i \in empty_cells(board) :
               /\ i < move
               /\ i \notin wins_now
               /\ candidate_values(board, "X")[i] = 8
               /\ CanForceWin(place(board, i, "X"), "X")

-----------------------------------------------------------------------------
(* Claims on the frames of a search *)

\* the calls in progress below the outermost one
recursion_depth == Len(stack) - 1

\* C23: every call of MinimaxAgent.get_move and of evaluate_state returns;
\* while it runs, each call made from a frame is made on a list with one
\* empty cell fewer than the list that frame was entered with, so the calls
\* in progress below the outermost one never exceed the empty cells of the
\* input board, which are at most 9; the value returned is the value of the
\* function.
C23_SearchTerminates ==
    /\ [](/\ \A k \in 2..Len(stack) : stack[k].empties = stack[k - 1].empties - 1
          /\ stack # <<>> => /\ recursion_depth <= stack[1].empties
                             /\ stack[1].empties <= 9
          /\ returned # <<>> =>
                 /\ stack = <<>>
                 /\ returned[1].value =
                        IF returned[1].fn = "get_move"
                        THEN <<MinimaxAgent_get_move(board, returned[1].mark)>>
                        ELSE evaluate_state(board, returned[1].mark))
    /\ <>(returned # <<>>)

\* a search of get_move on a board with MaxEmptySearch empty cells has gone as
\* deep as the board has empty cells, into a full board without a line that
\* is about to return 0
C23_Witness ==
    /\ stack # <<>>
    /\ stack[1].fn = "get_move"
    /\ stack[1].empties = MaxEmptySearch
    /\ recursion_depth = stack[1].empties
    /\ top.pc = "return"
    /\ top.value = <<0>>
    /\ top.empties = 0

=============================================================================
